---- MODULE Spec2Model ----
(***************************************************************************)
(* SimplePOS: the cart-to-transaction settlement pipeline.                 *)
(*                                                                         *)
(* The store is the one exported by server/storage.ts (DatabaseStorage);   *)
(* the request handlers are the routes of server/routes (the first         *)
(* registerRoutes of src/server/index.ts); the pricing figures are the     *)
(* ones the usePOS hook computes (client/src/hooks/use-pos.ts).            *)
(*                                                                         *)
(* Money is counted in units of 1/2000 of the currency unit and a tax rate *)
(* in tenths of a percent (7.5% is 75), so that every figure the hook      *)
(* computes on the modelled inputs is a whole number; the rounding of IEEE *)
(* doubles is not modelled.                                                *)
(***************************************************************************)
EXTENDS Integers, FiniteSets, Sequences, TLC

VARIABLES
    products,           \* table products: id -> [price, inventory, userId]
    cartItems,          \* table cart_items: id -> [productId, quantity, price, transactionId, userId]
    nextCartItemId,     \* serial of cart_items.id
    transactions,       \* table transactions: id -> record
    nextTransactionId,  \* serial of transactions.id
    users,              \* table users (settings subset): id -> [taxRate]
    discount,           \* usePOS state: discount
    discountType,       \* usePOS state: discountType
    response,           \* the last HTTP response: [op, status]
    added,              \* history: per pending line, quantity added since created or last set
    decremented,        \* history: per product, sum of the settlement decrements written
    requests,           \* handlers in flight (interleaved specification): slot -> frame
    nextProductId,      \* serial of products.id
    categories,         \* table categories: id -> [name, userId]
    nextCategoryId,     \* serial of categories.id
    modal               \* DiscountModal state: [discountType, discountValue]

vars == << products, cartItems, nextCartItemId, transactions, nextTransactionId,
           users, discount, discountType, response, added, decremented,
           requests, nextProductId, categories, nextCategoryId, modal >>

\* What the cart, transaction and settings operations leave alone.
catalogRest == << nextProductId, categories, nextCategoryId, modal >>

-----------------------------------------------------------------------------
(* Bounds of the model *)

MaxCartItems == 2       \* rows the cart_items serial may hand out
MaxTransactions == 2    \* rows the transactions serial may hand out
MaxQuantity == 3        \* largest quantity of a line while the cart alone is exercised
MaxSettledQuantity == 2 \* largest quantity of a line where settlements run
MaxInFlight == 2        \* requests the server handles at once
MaxProducts == 3        \* rows the products serial may hand out
MaxCategories == 3      \* rows the categories serial may hand out

-----------------------------------------------------------------------------
(* Values *)

Null == 0               \* SQL NULL / JS undefined of an integer column or field
NullText == "null"      \* SQL NULL / JS undefined of a text column or field
Unit == 2 * 1000        \* 1.00 of the currency

Users == {1, 2}
ProductIds == {1, 2}
MissingProductId == 3   \* an id no product row has
DefaultTaxRate == 75    \* 0.075, the hook's default rate; createUser's 7.5

TaxRates == {0, 80, 100}
PercentValues == {0, 10, 20, 150}
AmountValues == {0, (5 * Unit) \div 2, 100 * Unit}
PaymentMethods == {"cash"}

Min(a, b) == IF a <= b THEN a ELSE b

RECURSIVE SumOver(_, _)
SumOver(S, f) ==
    IF S = {} THEN 0
    ELSE LET x == CHOOSE y \in S : TRUE
         IN  f[x] + SumOver(S \ {x}, f)

-----------------------------------------------------------------------------
(* DatabaseStorage: products *)

\* getProductById(id) finds a row (the routes never pass a userId).
HasProduct(prods, id) == id \in DOMAIN prods

getProductById(prods, id) == prods[id]

updateProductInventory(prods, id, inventory) ==
    IF id \in DOMAIN prods
    THEN [prods EXCEPT ![id].inventory = inventory]
    ELSE prods

-----------------------------------------------------------------------------
(* DatabaseStorage: cart_items *)

getCartItems(items, transactionId, userId) ==
    { id \in DOMAIN items :
        /\ IF transactionId # Null
           THEN items[id].transactionId = transactionId
           ELSE items[id].transactionId = Null
        /\ (userId # Null => items[id].userId = userId) }

removeCartItem(items, id) == [i \in DOMAIN items \ {id} |-> items[i]]

\* An update that stores a quantity of 0 or less instead of deleting the row.
UpdateCartItemKeepsZero(items, id, quantity) ==
    IF id \in DOMAIN items
    THEN [items EXCEPT ![id].quantity = quantity]
    ELSE items

\* An update that adds the quantity to the stored one instead of setting it.
UpdateCartItemAdds(items, id, quantity) ==
    IF quantity <= 0
    THEN removeCartItem(items, id)
    ELSE IF id \in DOMAIN items
         THEN [items EXCEPT ![id].quantity = @ + quantity]
         ELSE items

updateCartItem(items, id, quantity) ==
    IF quantity <= 0
    THEN removeCartItem(items, id)
    ELSE IF id \in DOMAIN items
         THEN [items EXCEPT ![id].quantity = quantity]
         ELSE items

\* The row updateCartItem returns: none when it deleted or matched nothing.
updateCartItemReturns(items, id, quantity) ==
    quantity > 0 /\ id \in DOMAIN items

clearCart(items, transactionId, userId) ==
    LET gone == getCartItems(items, transactionId, userId)
    IN  [i \in DOMAIN items \ gone |-> items[i]]

\* A default that replaces the quantity asked for, too.
QuantityAlwaysOne(q) == 1

\* item.quantity || 1
QuantityOrOne(q) == IF q = Null THEN 1 ELSE q

\* The rows addToCart's select may find: same product, same transaction (or
\* none), and the same user only when the item names one.
addToCartMatches(items, item) ==
    { id \in getCartItems(items, item.transactionId, item.userId) :
        items[id].productId = item.productId }

\* A merge that overwrites the stored quantity instead of adding to it.
MergedQuantityOverwrites(existing, item) == QuantityOrOne(item.quantity)

MergedQuantity(existing, item) == existing.quantity + QuantityOrOne(item.quantity)

\* A merge that also takes the price the new item carries.
AddToCartMergeReprices(items, found, item) ==
    [updateCartItem(items, found, MergedQuantity(items[found], item))
        EXCEPT ![found].price = item.price]

addToCartMerge(items, found, item) ==
    updateCartItem(items, found, MergedQuantity(items[found], item))

addToCartInsert(items, id, item) ==
    items @@ (id :> [ productId     |-> item.productId,
                      quantity      |-> QuantityOrOne(item.quantity),
                      price         |-> item.price,
                      transactionId |-> item.transactionId,
                      userId        |-> item.userId ])

-----------------------------------------------------------------------------
(* usePOS: the figures of the cart *)

LineTotals(items) == [id \in DOMAIN items |-> items[id].price * items[id].quantity]

cartSubtotal(items, ids) == SumOver(ids, LineTotals(items))

discountAmount(subtotal, d, dType) ==
    IF dType = "percentage" THEN (subtotal * d) \div 100 ELSE d

\* A discount applied without the cap.
UncappedDiscountAmount(subtotal, d, dType) == discountAmount(subtotal, d, dType)

cappedDiscountAmount(subtotal, d, dType) ==
    Min(discountAmount(subtotal, d, dType), subtotal)

discountedSubtotal(subtotal, d, dType) ==
    subtotal - cappedDiscountAmount(subtotal, d, dType)

\* settings?.taxRate ? settings.taxRate / 100 : 0.075
\* settings is [loaded, taxRate]: loaded is false while the query has no data.
taxRate(settings) ==
    IF settings.loaded /\ settings.taxRate # 0 THEN settings.taxRate ELSE DefaultTaxRate

\* Tax computed on the gross subtotal.
TaxOnGrossSubtotal(subtotal, d, dType, rate) == (subtotal * rate) \div 1000

cartTax(subtotal, d, dType, rate) ==
    (discountedSubtotal(subtotal, d, dType) * rate) \div 1000

cartTotal(subtotal, d, dType, rate) ==
    discountedSubtotal(subtotal, d, dType) + cartTax(subtotal, d, dType, rate)

-----------------------------------------------------------------------------
(* DatabaseStorage: transactions *)

\* createTransaction of the record POST /transactions builds from the body:
\* discount and discountType as sent, status 'completed' unless the body
\* names one, completed false unless the body says true.
createTransaction(body, userId) ==
    [ subtotal      |-> body.subtotal,
      tax           |-> body.tax,
      total         |-> body.total,
      discount      |-> body.discount,
      discountType  |-> body.discountType,
      paymentMethod |-> body.paymentMethod,
      cashierId     |-> Null,
      userId        |-> userId,
      completed     |-> body.completed,
      status        |-> IF body.status = NullText THEN "completed" ELSE body.status ]

-----------------------------------------------------------------------------
(* usePOS: the requests the hook sends *)

\* The settings query of the logged-in user.
SettingsOf(u) == [loaded |-> TRUE, taxRate |-> users[u].taxRate]

\* The hook's cartItems: what GET /cart returns.
PendingIds == getCartItems(cartItems, Null, Null)

\* The body createTransactionMutation posts.
ClientBody(u, paymentMethod) ==
    LET sub == cartSubtotal(cartItems, PendingIds)
        rate == taxRate(SettingsOf(u))
    IN  [ subtotal      |-> sub,
          tax           |-> cartTax(sub, discount, discountType, rate),
          total         |-> cartTotal(sub, discount, discountType, rate),
          discount      |-> IF discount > 0
                            THEN cappedDiscountAmount(sub, discount, discountType)
                            ELSE Null,
          discountType  |-> IF discount > 0 THEN discountType ELSE NullText,
          paymentMethod |-> paymentMethod,
          completed     |-> TRUE,
          status        |-> "completed" ]

\* A body no hook computed: any client may post one, the schema accepts it.
ForgedBodies ==
    { [ subtotal      |-> 3 * Unit,
        tax           |-> 0,
        total         |-> Unit,
        discount      |-> Null,
        discountType  |-> NullText,
        paymentMethod |-> "cash",
        completed     |-> FALSE,
        status        |-> "held" ] }

Bodies(u) == { ClientBody(u, pm) : pm \in PaymentMethods } \cup ForgedBodies

-----------------------------------------------------------------------------
(* Initial state *)

\* The categories initializeDatabase inserts are global (no userId).
InitialCategories == (1 :> [name |-> "Food", userId |-> Null])

InitialProducts ==
    (1 :> [price |-> 10 * Unit, inventory |-> 2, userId |-> 1]) @@
    (2 :> [price |-> 5 * Unit,  inventory |-> 5, userId |-> 2])

NoFunction == [x \in {} |-> 0]

NoRequests == NoFunction

InitWith(catalog) ==
    /\ products = catalog
    /\ cartItems = NoFunction
    /\ nextCartItemId = 1
    /\ transactions = NoFunction
    /\ nextTransactionId = 1
    /\ users = [u \in Users |-> [taxRate |-> DefaultTaxRate]]
    /\ discount = 0
    /\ discountType = "percentage"
    /\ response = [op |-> "none", status |-> 0]
    /\ added = NoFunction
    /\ decremented = [p \in ProductIds |-> 0]
    /\ requests = NoRequests
    /\ nextProductId = Cardinality(DOMAIN catalog) + 1
    /\ categories = InitialCategories
    /\ nextCategoryId = Cardinality(DOMAIN InitialCategories) + 1
    /\ modal = [discountType |-> "percentage", discountValue |-> 0]

Init == InitWith(InitialProducts)

Respond(op, status) == response' = [op |-> op, status |-> status]

-----------------------------------------------------------------------------
(* Routes, one request at a time *)

\* POST /cart with every field insertCartItemSchema lets the body carry.
PostCart(productId, quantity, bodyPrice, transactionId, userId) ==
    /\ UNCHANGED << catalogRest, products, transactions, nextTransactionId, users, discount,
                    discountType, decremented, requests >>
    /\ IF ~HasProduct(products, productId)
       THEN /\ Respond("addItem", 404)
            /\ UNCHANGED << cartItems, nextCartItemId, added >>
       ELSE LET product == getProductById(products, productId)
                item == [ productId     |-> productId,
                          quantity      |-> quantity,
                          price         |-> IF bodyPrice = Null
                                            THEN product.price ELSE bodyPrice,
                          transactionId |-> transactionId,
                          userId        |-> userId ]
                matches == addToCartMatches(cartItems, item)
            IN  IF product.inventory < QuantityOrOne(quantity)
                THEN /\ Respond("addItem", 400)
                     /\ UNCHANGED << cartItems, nextCartItemId, added >>
                ELSE IF matches # {}
                THEN \E found \in matches :
                        /\ cartItems' = addToCartMerge(cartItems, found, item)
                        /\ added' = [added EXCEPT ![found] = @ + QuantityOrOne(quantity)]
                        /\ UNCHANGED nextCartItemId
                        /\ Respond("addItem", 201)
                ELSE /\ nextCartItemId <= MaxCartItems
                     /\ cartItems' = addToCartInsert(cartItems, nextCartItemId, item)
                     /\ added' = added @@ (nextCartItemId :> QuantityOrOne(quantity))
                     /\ nextCartItemId' = nextCartItemId + 1
                     /\ Respond("addItem", 201)

\* POST /cart as the hook and the cart page send it: no transactionId, no
\* userId in the body.
AddItem(productId, quantity, bodyPrice) ==
    PostCart(productId, quantity, bodyPrice, Null, Null)

Restrict(f, S) == [x \in DOMAIN f \cap S |-> f[x]]

\* The operands of the subtraction swapped.
AdditionalQuantitySwapped(quantity, existingItem) == existingItem.quantity - quantity

\* const additionalQuantity = quantity - existingItem.quantity
additionalQuantity(quantity, existingItem) == quantity - existingItem.quantity

\* PUT /cart/:id
SetQuantity(id, quantity) ==
    /\ UNCHANGED << catalogRest, products, nextCartItemId, transactions, nextTransactionId, users,
                    discount, discountType, decremented, requests >>
    /\ IF id \notin getCartItems(cartItems, Null, Null)
       THEN /\ Respond("setQuantity", 404)
            /\ UNCHANGED << cartItems, added >>
       ELSE LET existingItem == cartItems[id]
                increasing == quantity > existingItem.quantity
            IN  IF increasing /\ ~HasProduct(products, existingItem.productId)
                THEN /\ Respond("setQuantity", 404)
                     /\ UNCHANGED << cartItems, added >>
                ELSE IF /\ increasing
                        /\ getProductById(products, existingItem.productId).inventory
                              < additionalQuantity(quantity, existingItem)
                THEN /\ Respond("setQuantity", 400)
                     /\ UNCHANGED << cartItems, added >>
                ELSE /\ cartItems' = updateCartItem(cartItems, id, quantity)
                     /\ added' = IF quantity <= 0
                                 THEN Restrict(added, DOMAIN added \ {id})
                                 ELSE [added EXCEPT ![id] = quantity]
                     /\ Respond("setQuantity",
                                IF updateCartItemReturns(cartItems, id, quantity)
                                THEN 200
                                ELSE IF quantity <= 0 THEN 200 ELSE 404)

\* DELETE /cart/:id
RemoveItem(id) ==
    /\ UNCHANGED << catalogRest, products, nextCartItemId, transactions, nextTransactionId, users,
                    discount, discountType, decremented, requests >>
    /\ cartItems' = removeCartItem(cartItems, id)
    /\ added' = Restrict(added, DOMAIN added \ {id})
    /\ Respond("removeItem", 204)

\* DELETE /cart
ClearCart ==
    /\ UNCHANGED << catalogRest, products, nextCartItemId, transactions, nextTransactionId, users,
                    discount, discountType, decremented, requests >>
    /\ cartItems' = clearCart(cartItems, Null, Null)
    /\ added' = Restrict(added, DOMAIN cartItems')
    /\ Respond("clear", 204)

-----------------------------------------------------------------------------
(* POST /transactions *)

\* The inventory the settlement loop writes back for one line.
SettledInventory(inventory, quantity) == inventory - quantity

\* One turn of the loop over the cart items read: updateCartItem(item.id,
\* item.quantity), then the product's inventory is read and written back.
SettleLine(st, id, item) ==
    [ items |-> updateCartItem(st.items, id, item.quantity),
      prods |-> IF HasProduct(st.prods, item.productId)
                THEN updateProductInventory(st.prods, item.productId,
                        SettledInventory(getProductById(st.prods, item.productId).inventory,
                                         item.quantity))
                ELSE st.prods,
      dec   |-> IF HasProduct(st.prods, item.productId)
                THEN [st.dec EXCEPT ![item.productId] = @ + item.quantity]
                ELSE st.dec ]

RECURSIVE SettleLines(_, _, _)
SettleLines(st, ids, read) ==
    IF ids = {} THEN st
    ELSE LET id == CHOOSE x \in ids : \A y \in ids : x <= y
         IN  SettleLines(SettleLine(st, id, read[id]), ids \ {id}, read)

\* What the Pricing Engine gives for the lines a settlement read.
EngineFigures(items, ids, d, dType, rate) ==
    LET sub == cartSubtotal(items, ids)
    IN  [ lines    |-> ids,
          subtotal |-> sub,
          discount |-> cappedDiscountAmount(sub, d, dType),
          tax      |-> cartTax(sub, d, dType, rate),
          total    |-> cartTotal(sub, d, dType, rate),
          rate     |-> rate ]

\* caller is req.user (Null when the session is not authenticated); valid is
\* whether insertTransactionSchema.parse accepts the body.
Checkout(caller, valid, body) ==
    /\ UNCHANGED << catalogRest, nextCartItemId, users, discount, discountType, requests >>
    /\ IF caller = Null
       THEN /\ Respond("checkout", 401)
            /\ UNCHANGED << products, cartItems, transactions, nextTransactionId,
                            added, decremented >>
       ELSE IF ~valid
       THEN /\ Respond("checkout", 400)
            /\ UNCHANGED << products, cartItems, transactions, nextTransactionId,
                            added, decremented >>
       ELSE LET id == nextTransactionId
                read == getCartItems(cartItems, Null, Null)
                done == SettleLines([items |-> cartItems, prods |-> products,
                                     dec |-> decremented], read, cartItems)
            IN  /\ id <= MaxTransactions
                /\ transactions' = transactions @@ (id :> createTransaction(body, caller))
                /\ nextTransactionId' = id + 1
                /\ cartItems' = done.items
                /\ products' = done.prods
                /\ decremented' = done.dec
                /\ added' = Restrict(added, DOMAIN done.items)
                /\ Respond("checkout", 201)

-----------------------------------------------------------------------------
(* usePOS state and settings *)

\* applyDiscount(discountAmount, discountType)
ApplyDiscount(value, type) ==
    /\ discount' = value
    /\ discountType' = type
    /\ UNCHANGED << catalogRest, products, cartItems, nextCartItemId, transactions,
                    nextTransactionId, users, response, added,
                    decremented, requests >>

\* What the discount field may hold: parseFloat of what was typed.
ModalValues == {-1, 0, 20, 150, 100 * Unit}

\* setDiscountType of the dialog's two buttons.
SetModalDiscountType(type) ==
    /\ modal' = [modal EXCEPT !.discountType = type]
    /\ UNCHANGED << products, cartItems, nextCartItemId, transactions,
                    nextTransactionId, users, discount, discountType, response,
                    added, decremented, requests, nextProductId, categories,
                    nextCategoryId >>

\* handleDiscountChange
HandleDiscountChange(value) ==
    /\ modal' = [modal EXCEPT !.discountValue = value]
    /\ UNCHANGED << products, cartItems, nextCartItemId, transactions,
                    nextTransactionId, users, discount, discountType, response,
                    added, decremented, requests, nextProductId, categories,
                    nextCategoryId >>

\* The value handleApplyDiscount leaves in the field for the next render.
CappedModalValue(m, subtotal) ==
    IF m.discountType = "percentage" /\ m.discountValue > 100
    THEN 100
    ELSE IF m.discountType = "amount" /\ m.discountValue > subtotal
         THEN subtotal
         ELSE m.discountValue

\* The value handleApplyDiscount hands to onApplyDiscount: discountValue of
\* the render the handler closed over, which setDiscountValue does not change.
HandedValue(m, subtotal) == m.discountValue

\* handleApplyDiscount, with onApplyDiscount = applyDiscount of usePOS and
\* subtotal = cartSubtotal.
HandleApplyDiscount ==
    LET subtotal == cartSubtotal(cartItems, PendingIds)
    IN  IF modal.discountValue <= 0
        THEN UNCHANGED vars
        ELSE /\ modal' = [modal EXCEPT !.discountValue = CappedModalValue(modal, subtotal)]
             /\ discount' = HandedValue(modal, subtotal)
             /\ discountType' = modal.discountType
             /\ UNCHANGED << products, cartItems, nextCartItemId, transactions,
                             nextTransactionId, users, response, added,
                             decremented, requests, nextProductId, categories,
                             nextCategoryId >>

DiscountValues(type) == IF type = "percentage" THEN PercentValues ELSE AmountValues

DiscountTypes == {"percentage", "amount"}

\* updateUserSettings(id, {taxRate})
UpdateUserSettings(u, rate) ==
    /\ users' = [users EXCEPT ![u].taxRate = rate]
    /\ UNCHANGED << catalogRest, products, cartItems, nextCartItemId, transactions,
                    nextTransactionId, discount, discountType, response, added,
                    decremented, requests >>

-----------------------------------------------------------------------------
(* Specifications *)

CartItemIds == 1 .. MaxCartItems

\* The bound on line quantities, applied to the state a request leaves.
QuantitiesWithin(n) == \A id \in DOMAIN cartItems : cartItems[id].quantity <= n

\* Any request to the cart routes, quantities up to n.
CartRequest(n) ==
    \/ \E p \in ProductIds \cup {MissingProductId}, q \in 0 .. n :
          \E price \in {Null} \cup {products[x].price : x \in DOMAIN products \cap {p}} :
             AddItem(p, q, price) /\ QuantitiesWithin(n)'
    \/ \E id \in CartItemIds, q \in -1 .. n : SetQuantity(id, q)
    \/ \E id \in CartItemIds : RemoveItem(id)
    \/ ClearCart

CheckoutRequest ==
    \E caller \in {Null} \cup Users, valid \in BOOLEAN :
       \E body \in Bodies(IF caller = Null THEN 1 ELSE caller) :
          Checkout(caller, valid, body)

\* The store under requests handled one at a time.
Next ==
    \/ CartRequest(MaxSettledQuantity)
    \/ CheckoutRequest

Spec == Init /\ [][Next]_vars

\* The cart and the hook's figures: cart requests, discounts, settings.
InitCart ==
    \E p1 \in {10 * Unit, 100 * Unit} :
       InitWith([InitialProducts EXCEPT ![1].price = p1])

NextCart ==
    \/ CartRequest(MaxQuantity)
    \/ \E t \in DiscountTypes : \E v \in DiscountValues(t) : ApplyDiscount(v, t)
    \/ \E u \in Users, r \in TaxRates : UpdateUserSettings(u, r)

SpecCart == InitCart /\ [][NextCart]_vars

\* The transaction ids a POST /cart body may name.
TransactionIds == 1 .. MaxTransactions

\* The cart routes called with any body the schema accepts, and checkouts.
NextBound ==
    \/ \E p \in ProductIds, q \in 0 .. MaxSettledQuantity,
          t \in {Null} \cup TransactionIds :
          PostCart(p, q, Null, t, Null) /\ QuantitiesWithin(MaxSettledQuantity)'
    \/ \E id \in CartItemIds, q \in -1 .. MaxSettledQuantity : SetQuantity(id, q)
    \/ \E id \in CartItemIds : RemoveItem(id)
    \/ ClearCart
    \/ \E caller \in Users, pm \in PaymentMethods :
          Checkout(caller, TRUE, ClientBody(caller, pm))

SpecBound == Init /\ [][NextBound]_vars

-----------------------------------------------------------------------------
(* DatabaseStorage: transactions read and completed, the catalog *)

\* getTransaction(id, userId) finds a row: with a userId only the user's own.
HasTransaction(txs, id, userId) ==
    /\ id \in DOMAIN txs
    /\ (userId # Null => txs[id].userId = userId)

getTransaction(txs, id, userId) == txs[id]

getAllTransactions(txs, userId) ==
    { id \in DOMAIN txs : userId # Null => txs[id].userId = userId }

\* A completion that totals the row again from its subtotal and tax.
CompleteRecomputesTotal(txs, id, paymentMethod) ==
    IF id \in DOMAIN txs
    THEN [txs EXCEPT ![id].completed = TRUE, ![id].paymentMethod = paymentMethod,
                     ![id].total = txs[id].subtotal + txs[id].tax]
    ELSE txs

completeTransaction(txs, id, paymentMethod) ==
    IF id \in DOMAIN txs
    THEN [txs EXCEPT ![id].completed = TRUE, ![id].paymentMethod = paymentMethod]
    ELSE txs

\* updateProduct(id, product, userId): one column set, on the user's own row.
updateProduct(prods, id, field, value, userId) ==
    IF id \in DOMAIN prods /\ (userId # Null => prods[id].userId = userId)
    THEN IF field = "price"
         THEN [prods EXCEPT ![id].price = value]
         ELSE [prods EXCEPT ![id].inventory = value]
    ELSE prods

updateProductReturns(prods, id, userId) ==
    id \in DOMAIN prods /\ (userId # Null => prods[id].userId = userId)

deleteProduct(prods, id, userId) ==
    IF id \in DOMAIN prods /\ (userId # Null => prods[id].userId = userId)
    THEN [p \in DOMAIN prods \ {id} |-> prods[p]]
    ELSE prods

-----------------------------------------------------------------------------
(* Transaction and catalog routes, one request at a time *)

\* The response of a route whose caller matters to who may do what.
RespondTo(caller, op, status) ==
    response' = [op |-> op, status |-> status, caller |-> caller]

CompletionMethods == {"cash", "card"}

\* PUT /transactions/:id/complete. The route has no isAuthenticated and never
\* reads req.user: caller is whoever sends the request (Null: nobody logged in).
CompleteTransaction(caller, id, paymentMethod) ==
    /\ transactions' = completeTransaction(transactions, id, paymentMethod)
    /\ RespondTo(caller, "complete", IF id \in DOMAIN transactions THEN 200 ELSE 404)
    /\ UNCHANGED << catalogRest, products, cartItems, nextCartItemId,
                    nextTransactionId, users, discount, discountType, added,
                    decremented, requests >>

ProductPrices == {20 * Unit}
ProductInventories == {0}

\* POST /products
CreateProduct(caller, price, inventory) ==
    /\ UNCHANGED << categories, nextCategoryId, modal, cartItems, nextCartItemId,
                    transactions, nextTransactionId, users, discount,
                    discountType, added, requests >>
    /\ IF caller = Null
       THEN /\ RespondTo(caller, "createProduct", 401)
            /\ UNCHANGED << products, nextProductId, decremented >>
       ELSE /\ nextProductId <= MaxProducts
            /\ products' = products @@
                  (nextProductId :> [price |-> price, inventory |-> inventory,
                                     userId |-> caller])
            /\ decremented' = decremented @@ (nextProductId :> 0)
            /\ nextProductId' = nextProductId + 1
            /\ RespondTo(caller, "createProduct", 201)

\* PUT /products/:id
UpdateProduct(caller, id, field, value) ==
    /\ UNCHANGED << catalogRest, cartItems, nextCartItemId, transactions,
                    nextTransactionId, users, discount, discountType, added,
                    decremented, requests >>
    /\ IF caller = Null
       THEN /\ RespondTo(caller, "updateProduct", 401)
            /\ UNCHANGED products
       ELSE /\ products' = updateProduct(products, id, field, value, caller)
            /\ RespondTo(caller, "updateProduct",
                         IF updateProductReturns(products, id, caller) THEN 200 ELSE 404)

\* DELETE /products/:id: deleteProduct answers !!result, true for any result.
DeleteProduct(caller, id) ==
    /\ UNCHANGED << catalogRest, cartItems, nextCartItemId, transactions,
                    nextTransactionId, users, discount, discountType, added,
                    decremented, requests >>
    /\ IF caller = Null
       THEN /\ RespondTo(caller, "deleteProduct", 401)
            /\ UNCHANGED products
       ELSE /\ products' = deleteProduct(products, id, caller)
            /\ RespondTo(caller, "deleteProduct", 204)

CategoryNames == {"Drinks"}

\* POST /categories
CreateCategory(caller, name) ==
    /\ UNCHANGED << nextProductId, modal, products, cartItems, nextCartItemId,
                    transactions, nextTransactionId, users, discount,
                    discountType, added, decremented, requests >>
    /\ IF caller = Null
       THEN /\ RespondTo(caller, "createCategory", 401)
            /\ UNCHANGED << categories, nextCategoryId >>
       ELSE /\ nextCategoryId <= MaxCategories
            /\ categories' = categories @@
                  (nextCategoryId :> [name |-> name, userId |-> caller])
            /\ nextCategoryId' = nextCategoryId + 1
            /\ RespondTo(caller, "createCategory", 201)

Callers == {Null} \cup Users

\* getAllCategories(userId): the user's and the global rows when a userId is
\* given, every row when none is.
getAllCategories(cats, userId) ==
    IF userId # Null
    THEN { id \in DOMAIN cats : cats[id].userId = userId \/ cats[id].userId = Null }
    ELSE DOMAIN cats

\* GET /categories: caller is req.user.id, Null when nobody is logged in.
ListCategories(caller) == getAllCategories(categories, caller)

\* The transaction records under checkouts and completions by anybody.
NextLedger ==
    \/ AddItem(1, 1, Null) /\ QuantitiesWithin(1)'
    \/ ClearCart
    \/ \E caller \in Users : \E body \in Bodies(caller) : Checkout(caller, TRUE, body)
    \/ \E caller \in Callers, id \in TransactionIds, pm \in CompletionMethods :
          CompleteTransaction(caller, id, pm)

SpecLedger == Init /\ [][NextLedger]_vars

\* One user's register with everything around the transaction records moving:
\* the cart, the catalog, the settings, the discount, further checkouts.
NextFrame ==
    \/ AddItem(1, 1, Null) /\ QuantitiesWithin(1)'
    \/ SetQuantity(1, 0)
    \/ RemoveItem(1)
    \/ ClearCart
    \/ Checkout(1, TRUE, ClientBody(1, "cash"))
    \/ \E id \in TransactionIds : CompleteTransaction(1, id, "cash")
    \/ \E price \in ProductPrices, inv \in ProductInventories : CreateProduct(1, price, inv)
    \/ \E price \in ProductPrices : UpdateProduct(1, 1, "price", price)
    \/ DeleteProduct(1, 1)
    \/ \E name \in CategoryNames : CreateCategory(1, name)
    \/ ApplyDiscount(20, "percentage")
    \/ UpdateUserSettings(1, 100)

SpecFrame == Init /\ [][NextFrame]_vars

\* The inventory levels the owner of a product sets.
StockLevels == {0, 1}

\* The cart routes while the owners restock and run out.
NextStock ==
    \/ CartRequest(MaxQuantity)
    \/ \E caller \in Users, id \in ProductIds, inv \in StockLevels :
          UpdateProduct(caller, id, "inventory", inv)

SpecStock == Init /\ [][NextStock]_vars

\* The cart routes while the owners reprice their products.
NextPrice ==
    \/ CartRequest(MaxQuantity)
    \/ \E caller \in Users, id \in ProductIds, price \in ProductPrices :
          UpdateProduct(caller, id, "price", price)

SpecPrice == Init /\ [][NextPrice]_vars

\* The names a category form may carry: a new one and a seeded one.
OwnCategoryNames == CategoryNames \cup {"Food"}

\* The category routes called by anybody, beside one register's cart.
NextCategory ==
    \/ \E caller \in Callers, name \in OwnCategoryNames : CreateCategory(caller, name)
    \/ AddItem(1, 1, Null) /\ QuantitiesWithin(1)'
    \/ ClearCart

SpecCategory == Init /\ [][NextCategory]_vars

\* The discount dialog beside one register's cart.
NextDiscount ==
    \/ \E p \in ProductIds : AddItem(p, 1, Null) /\ QuantitiesWithin(MaxSettledQuantity)'
    \/ ClearCart
    \/ \E t \in DiscountTypes : SetModalDiscountType(t)
    \/ \E v \in ModalValues : HandleDiscountChange(v)
    \/ HandleApplyDiscount

SpecDiscount == Init /\ [][NextDiscount]_vars

-----------------------------------------------------------------------------
(* Routes, interleaved: every await of a handler is a step of its own *)

NoBody == CHOOSE b \in ForgedBodies : TRUE

\* A handler in flight: the request, the place it has reached and what it has
\* read so far.
NewFrame(op, pc) ==
    [ op |-> op, pc |-> pc, caller |-> Null, body |-> NoBody,
      productId |-> Null, id |-> Null, quantity |-> 0, price |-> 0,
      found |-> Null, seen |-> 0, read |-> NoFunction, todo |-> {}, inventory |-> 0,
      tx |-> Null ]

FreeSlot == CHOOSE s \in 1 .. MaxInFlight + 1 : s \notin DOMAIN requests

CanSend == FreeSlot <= MaxInFlight

Start(frame) == requests' = requests @@ (FreeSlot :> frame)

Finish(s, op, status) ==
    /\ requests' = Restrict(requests, DOMAIN requests \ {s})
    /\ Respond(op, status)

At(s, op, pc) == s \in DOMAIN requests /\ requests[s].op = op /\ requests[s].pc = pc

Goto(s, frame) == requests' = [requests EXCEPT ![s] = frame]

\* addToCartMutation: POST /cart {productId, quantity: 1, price: product.price}
SendAddItem(p) ==
    /\ CanSend
    /\ Start([NewFrame("addItem", "getProduct") EXCEPT
                 !.productId = p, !.quantity = 1, !.price = products[p].price])
    /\ UNCHANGED << catalogRest, products, cartItems, nextCartItemId, transactions,
                    nextTransactionId, users, discount, discountType, response,
                    added, decremented >>

\* The plus button of a cart line: PUT /cart/:id {quantity: item.quantity + 1}
SendPlus(id) ==
    /\ CanSend
    /\ id \in PendingIds
    /\ Start([NewFrame("setQuantity", "findItem") EXCEPT
                 !.id = id, !.quantity = cartItems[id].quantity + 1])
    /\ UNCHANGED << catalogRest, products, cartItems, nextCartItemId, transactions,
                    nextTransactionId, users, discount, discountType, response,
                    added, decremented >>

\* createTransactionMutation: POST /transactions with the hook's figures
SendCheckout(caller, paymentMethod) ==
    /\ CanSend
    /\ nextTransactionId + Cardinality({s \in DOMAIN requests :
                                          requests[s].pc = "createTransaction"})
          <= MaxTransactions
    /\ Start([NewFrame("checkout", "createTransaction") EXCEPT
                 !.caller = caller, !.body = ClientBody(caller, paymentMethod)])
    /\ UNCHANGED << catalogRest, products, cartItems, nextCartItemId, transactions,
                    nextTransactionId, users, discount, discountType, response,
                    added, decremented >>

\* POST /cart: getProductById and the inventory check
PostCartGetProduct(s) ==
    /\ At(s, "addItem", "getProduct")
    /\ LET f == requests[s]
       IN  IF ~HasProduct(products, f.productId)
           THEN Finish(s, "addItem", 404)
           ELSE IF getProductById(products, f.productId).inventory
                      < QuantityOrOne(f.quantity)
           THEN Finish(s, "addItem", 400)
           ELSE /\ Goto(s, [f EXCEPT !.pc = "select"])
                /\ UNCHANGED response
    /\ UNCHANGED << catalogRest, products, cartItems, nextCartItemId, transactions,
                    nextTransactionId, users, discount, discountType, added,
                    decremented >>

FrameItem(f) ==
    [ productId |-> f.productId, quantity |-> f.quantity, price |-> f.price,
      transactionId |-> Null, userId |-> Null ]

\* addToCart: the select of an existing line
AddToCartSelect(s) ==
    /\ At(s, "addItem", "select")
    /\ LET f == requests[s]
           matches == addToCartMatches(cartItems, FrameItem(f))
       IN  IF matches # {}
           THEN \E found \in matches :
                   Goto(s, [f EXCEPT !.pc = "write", !.found = found,
                                     !.seen = cartItems[found].quantity])
           ELSE Goto(s, [f EXCEPT !.pc = "write", !.found = Null])
    /\ UNCHANGED << catalogRest, products, cartItems, nextCartItemId, transactions,
                    nextTransactionId, users, discount, discountType, response,
                    added, decremented >>

\* addToCart: the update of the line selected, or the insert of a new one
AddToCartWrite(s) ==
    /\ At(s, "addItem", "write")
    /\ LET f == requests[s]
           item == FrameItem(f)
       IN  IF f.found # Null
           THEN /\ cartItems' = updateCartItem(cartItems, f.found,
                                   MergedQuantity([quantity |-> f.seen], item))
                /\ added' = IF f.found \in DOMAIN added
                            THEN [added EXCEPT ![f.found] = @ + QuantityOrOne(f.quantity)]
                            ELSE added
                /\ UNCHANGED nextCartItemId
           ELSE /\ nextCartItemId <= MaxCartItems
                /\ cartItems' = addToCartInsert(cartItems, nextCartItemId, item)
                /\ added' = added @@ (nextCartItemId :> QuantityOrOne(f.quantity))
                /\ nextCartItemId' = nextCartItemId + 1
    /\ Finish(s, "addItem", 201)
    /\ UNCHANGED << catalogRest, products, transactions, nextTransactionId, users, discount,
                    discountType, decremented >>

\* PUT /cart/:id: the lookup of the line among the pending cart items
PutCartFind(s) ==
    /\ At(s, "setQuantity", "findItem")
    /\ LET f == requests[s]
       IN  IF f.id \notin getCartItems(cartItems, Null, Null)
           THEN Finish(s, "setQuantity", 404)
           ELSE /\ Goto(s, [f EXCEPT !.seen = cartItems[f.id].quantity,
                                     !.productId = cartItems[f.id].productId,
                                     !.pc = IF f.quantity > cartItems[f.id].quantity
                                            THEN "checkInventory" ELSE "update"])
                /\ UNCHANGED response
    /\ UNCHANGED << catalogRest, products, cartItems, nextCartItemId, transactions,
                    nextTransactionId, users, discount, discountType, added,
                    decremented >>

\* PUT /cart/:id: the inventory check of an increase
PutCartCheck(s) ==
    /\ At(s, "setQuantity", "checkInventory")
    /\ LET f == requests[s]
       IN  IF ~HasProduct(products, f.productId)
           THEN Finish(s, "setQuantity", 404)
           ELSE IF getProductById(products, f.productId).inventory
                      < additionalQuantity(f.quantity, [quantity |-> f.seen])
           THEN Finish(s, "setQuantity", 400)
           ELSE /\ Goto(s, [f EXCEPT !.pc = "update"])
                /\ UNCHANGED response
    /\ UNCHANGED << catalogRest, products, cartItems, nextCartItemId, transactions,
                    nextTransactionId, users, discount, discountType, added,
                    decremented >>

\* PUT /cart/:id: updateCartItem(id, quantity). The request is a plus click:
\* once accepted it counts as one more unit added to the line.
PutCartUpdate(s) ==
    /\ At(s, "setQuantity", "update")
    /\ LET f == requests[s]
       IN  /\ cartItems' = updateCartItem(cartItems, f.id, f.quantity)
           /\ added' = IF f.id \in DOMAIN added
                       THEN [added EXCEPT ![f.id] = @ + 1]
                       ELSE added
           /\ Finish(s, "setQuantity",
                     IF updateCartItemReturns(cartItems, f.id, f.quantity)
                     THEN 200
                     ELSE IF f.quantity <= 0 THEN 200 ELSE 404)
    /\ UNCHANGED << catalogRest, products, nextCartItemId, transactions, nextTransactionId, users,
                    discount, discountType, decremented >>

\* POST /transactions: createTransaction
CheckoutCreate(s) ==
    /\ At(s, "checkout", "createTransaction")
    /\ nextTransactionId <= MaxTransactions
    /\ transactions' = transactions @@
          (nextTransactionId :> createTransaction(requests[s].body, requests[s].caller))
    /\ nextTransactionId' = nextTransactionId + 1
    /\ Goto(s, [requests[s] EXCEPT !.pc = "readCart", !.tx = nextTransactionId])
    /\ UNCHANGED << catalogRest, products, cartItems, nextCartItemId, users, discount,
                    discountType, response, added, decremented >>

FirstOf(ids) == CHOOSE x \in ids : \A y \in ids : x <= y

\* The loop moves to the next cart item read, or the handler answers 201.
NextLine(s, f, todo) ==
    IF todo = {}
    THEN Finish(s, "checkout", 201)
    ELSE /\ Goto(s, [f EXCEPT !.pc = "updateLine", !.todo = todo, !.id = FirstOf(todo)])
         /\ UNCHANGED response

\* POST /transactions: getCartItems()
CheckoutReadCart(s) ==
    /\ At(s, "checkout", "readCart")
    /\ LET read == getCartItems(cartItems, Null, Null)
       IN  NextLine(s, [requests[s] EXCEPT !.read = Restrict(cartItems, read)], read)
    /\ UNCHANGED << catalogRest, products, cartItems, nextCartItemId, transactions,
                    nextTransactionId, users, discount, discountType, added,
                    decremented >>

\* POST /transactions: updateCartItem(item.id, item.quantity)
CheckoutUpdateLine(s) ==
    /\ At(s, "checkout", "updateLine")
    /\ LET f == requests[s]
       IN  /\ cartItems' = updateCartItem(cartItems, f.id, f.read[f.id].quantity)
           /\ added' = Restrict(added, DOMAIN cartItems')
           /\ Goto(s, [f EXCEPT !.pc = "readProduct"])
    /\ UNCHANGED << catalogRest, products, nextCartItemId, transactions, nextTransactionId, users,
                    discount, discountType, response, decremented >>

\* POST /transactions: getProductById(item.productId)
CheckoutReadProduct(s) ==
    /\ At(s, "checkout", "readProduct")
    /\ LET f == requests[s]
           pid == f.read[f.id].productId
       IN  IF HasProduct(products, pid)
           THEN /\ Goto(s, [f EXCEPT !.pc = "writeProduct",
                                     !.inventory = getProductById(products, pid).inventory])
                /\ UNCHANGED response
           ELSE NextLine(s, f, f.todo \ {f.id})
    /\ UNCHANGED << catalogRest, products, cartItems, nextCartItemId, transactions,
                    nextTransactionId, users, discount, discountType, added,
                    decremented >>

\* POST /transactions: updateProduct(product.id, {inventory: product.inventory - item.quantity})
CheckoutWriteProduct(s) ==
    /\ At(s, "checkout", "writeProduct")
    /\ LET f == requests[s]
           item == f.read[f.id]
       IN  /\ products' = updateProductInventory(products, item.productId,
                             SettledInventory(f.inventory, item.quantity))
           /\ decremented' = [decremented EXCEPT ![item.productId] = @ + item.quantity]
           /\ NextLine(s, f, f.todo \ {f.id})
    /\ UNCHANGED << catalogRest, cartItems, nextCartItemId, transactions, nextTransactionId, users,
                    discount, discountType, added >>

Slots == 1 .. MaxInFlight

\* One operator at one register sends the requests that overlap, and rings up
\* one product.
Operators == {1}
RungUp == {1}

NextConc ==
    \/ \E p \in RungUp : SendAddItem(p)
    \/ \E id \in CartItemIds : SendPlus(id)
    \/ \E caller \in Operators, pm \in PaymentMethods : SendCheckout(caller, pm)
    \/ \E s \in Slots : PostCartGetProduct(s)
    \/ \E s \in Slots : AddToCartSelect(s)
    \/ \E s \in Slots : AddToCartWrite(s) /\ QuantitiesWithin(MaxSettledQuantity)'
    \/ \E s \in Slots : PutCartFind(s)
    \/ \E s \in Slots : PutCartCheck(s)
    \/ \E s \in Slots : PutCartUpdate(s) /\ QuantitiesWithin(MaxSettledQuantity)'
    \/ \E s \in Slots : CheckoutCreate(s)
    \/ \E s \in Slots : CheckoutReadCart(s)
    \/ \E s \in Slots : CheckoutUpdateLine(s)
    \/ \E s \in Slots : CheckoutReadProduct(s)
    \/ \E s \in Slots : CheckoutWriteProduct(s)

SpecConc == Init /\ [][NextConc]_vars

-----------------------------------------------------------------------------
(* POST /transactions with storage calls that may reject *)

\* An awaited storage call of POST /transactions rejects (the database is
\* unreachable, a statement fails): the catch block answers 500. Nothing the
\* handler wrote before is undone, the handler opens no database transaction.
CheckoutFails(s) ==
    /\ s \in DOMAIN requests
    /\ requests[s].op = "checkout"
    /\ Finish(s, "checkout", 500)
    /\ UNCHANGED << catalogRest, products, cartItems, nextCartItemId, transactions,
                    nextTransactionId, users, discount, discountType, added,
                    decremented >>

\* The handlers' steps, as in NextConc.
HandlerStep(s) ==
    \/ PostCartGetProduct(s)
    \/ AddToCartSelect(s)
    \/ AddToCartWrite(s) /\ QuantitiesWithin(MaxSettledQuantity)'
    \/ PutCartFind(s)
    \/ PutCartCheck(s)
    \/ PutCartUpdate(s) /\ QuantitiesWithin(MaxSettledQuantity)'
    \/ CheckoutCreate(s)
    \/ CheckoutReadCart(s)
    \/ CheckoutUpdateLine(s)
    \/ CheckoutReadProduct(s)
    \/ CheckoutWriteProduct(s)

\* One request at a time, every storage call of a checkout may reject.
NextFault ==
    \/ /\ requests = NoRequests
       /\ \/ \E p \in ProductIds : SendAddItem(p)
          \/ \E id \in CartItemIds : SendPlus(id)
          \/ \E caller \in Users, pm \in PaymentMethods : SendCheckout(caller, pm)
    \/ \E s \in Slots : HandlerStep(s)
    \/ \E s \in Slots : CheckoutFails(s)

SpecFault == Init /\ [][NextFault]_vars

-----------------------------------------------------------------------------
(* Properties *)

\* A step of POST /transactions that created a transaction row.
TransactionCreated == nextTransactionId' = nextTransactionId + 1

\* A step of POST /transactions that answered or wrote something.
CheckoutStep ==
    /\ response'.op = "checkout"
    /\ response' # response \/ transactions' # transactions

CreatedTransaction == transactions'[nextTransactionId]

\* The discount a transaction records, 0 when it records none.
RecordedDiscount(t) == IF t.discount = Null THEN 0 ELSE t.discount

\* C1: in every reachable state every product's inventory is >= 0 (a
\* settlement decrement larger than the inventory fails and changes nothing).
C1_InventoryNeverNegative ==
    \A p \in DOMAIN products : products[p].inventory >= 0

\* C2: a checkout issued while no cart line is pending answers with an error
\* and leaves the stored transactions as they were.
C2_EmptyCartCheckoutRejected ==
    [][ (PendingIds = {} /\ CheckoutStep)
          => (response'.status >= 400 /\ transactions' = transactions) ]_vars

\* C3: a checkout that created transaction T leaves every line it read bound
\* to T: no line stays pending and the lines of T are exactly those lines.
C3_CheckoutBindsLines ==
    [][ TransactionCreated =>
          /\ \A id \in PendingIds :
                /\ id \in DOMAIN cartItems'
                /\ cartItems'[id].transactionId = nextTransactionId
          /\ getCartItems(cartItems', Null, Null) = {}
          /\ getCartItems(cartItems', nextTransactionId, Null) = PendingIds ]_vars

\* C4: whatever figures the body carries, the figures persisted on the created
\* transaction are the Pricing Engine's for the lines pending at the checkout.
C4_ServerFiguresPersisted ==
    [][ TransactionCreated =>
          LET engine == EngineFigures(cartItems, PendingIds, discount, discountType,
                                      taxRate(SettingsOf(CreatedTransaction.userId)))
          IN  /\ CreatedTransaction.subtotal = engine.subtotal
              /\ CreatedTransaction.tax = engine.tax
              /\ CreatedTransaction.total = engine.total ]_vars

\* C5: every stored transaction has total = (subtotal - discount) + tax and
\* tax = (subtotal - discount) x the owner's effective tax rate, the discount
\* counting as 0 when none is recorded.
C5_TransactionFiguresConsistent ==
    \A id \in DOMAIN transactions :
       LET t == transactions[id]
           base == t.subtotal - RecordedDiscount(t)
       IN  /\ t.total = base + t.tax
           /\ t.tax * 1000 = base * taxRate(SettingsOf(t.userId))

\* The figures the hook shows for the cart, for the logged-in user u.
HookSubtotal == cartSubtotal(cartItems, PendingIds)
HookRate(u) == taxRate(SettingsOf(u))
HookDiscount == cappedDiscountAmount(HookSubtotal, discount, discountType)
HookTax(u) == cartTax(HookSubtotal, discount, discountType, HookRate(u))
HookTotal(u) == cartTotal(HookSubtotal, discount, discountType, HookRate(u))

\* The discount before the cap, as the contract states it.
RawDiscount ==
    IF discountType = "percentage" THEN (HookSubtotal * discount) \div 100 ELSE discount

\* C6: the tax is (subtotal - capped discount) x rate and the total is
\* (subtotal - capped discount) + tax; where a discount applies, the tax is
\* not the tax of the undiscounted subtotal.
C6_TaxOnDiscountedSubtotal ==
    \A u \in Users :
       LET capped == Min(RawDiscount, HookSubtotal)
       IN  /\ HookTax(u) * 1000 = (HookSubtotal - capped) * HookRate(u)
           /\ HookTotal(u) = (HookSubtotal - capped) + HookTax(u)
           /\ capped > 0 => HookTax(u) * 1000 # HookSubtotal * HookRate(u)

\* Subtotal 100 with a 20% discount and a 10% rate: discount 20, tax 8, total 88.
C6_Witness ==
    /\ HookSubtotal = 100 * Unit
    /\ discountType = "percentage" /\ discount = 20
    /\ HookRate(1) = 100
    /\ HookDiscount = 20 * Unit
    /\ HookTax(1) = 8 * Unit
    /\ HookTotal(1) = 88 * Unit

\* C7: with a discount value >= 0 the capped discount is min(raw discount,
\* subtotal), lies between 0 and the subtotal, and neither the discounted
\* subtotal nor the total is negative, for both kinds of discount.
C7_DiscountCapped ==
    discount >= 0 =>
       /\ HookDiscount = Min(RawDiscount, HookSubtotal)
       /\ 0 <= HookDiscount /\ HookDiscount <= HookSubtotal
       /\ discountedSubtotal(HookSubtotal, discount, discountType) >= 0
       /\ \A u \in Users : HookTotal(u) >= 0

\* A fixed-amount discount larger than the subtotal of a cart that holds a line.
C7_Witness ==
    /\ PendingIds # {}
    /\ discountType = "amount"
    /\ discount > HookSubtotal
    /\ HookDiscount = HookSubtotal

\* C8: the pending cart of a scope holds at most one line per product, and the
\* quantity of a line is the sum of the quantities added to it since it was
\* created or last set.
C8_MergeOnAdd ==
    /\ \A i, j \in PendingIds :
          (cartItems[i].productId = cartItems[j].productId
             /\ cartItems[i].userId = cartItems[j].userId) => i = j
    /\ \A i \in PendingIds : i \in DOMAIN added /\ cartItems[i].quantity = added[i]

\* A successful addItem left one line of quantity 3 for product 1, whose
\* inventory of 2 admits no single addItem of 3: the line was merged.
C8_Witness ==
    /\ response = [op |-> "addItem", status |-> 201]
    /\ \E i \in PendingIds :
          /\ cartItems[i].productId = 1
          /\ cartItems[i].quantity = 3
          /\ products[1].inventory = 2
          /\ \A j \in PendingIds : cartItems[j].productId = 1 => j = i

\* C9: when the quantity-increasing requests in flight have all been answered
\* (and no checkout has run), every line holds every increment that was
\* accepted (two single increments leave the old quantity + 2) and no product
\* has a second pending line.
C9_ConcurrentIncrementsKept ==
    (DOMAIN requests = {} /\ transactions = NoFunction) =>
       /\ \A i \in PendingIds : cartItems[i].quantity = added[i]
       /\ \A i, j \in PendingIds :
             cartItems[i].productId = cartItems[j].productId => i = j

\* C10: when the settlements in flight have all been answered, the inventory
\* of a product is its initial inventory minus the quantities of all the
\* decrements written for it.
C10_NoDecrementLost ==
    DOMAIN requests = {} =>
       \A p \in DOMAIN products :
          products[p].inventory = InitialProducts[p].inventory - decremented[p]

\* The lines a checkout in flight has already gone through.
SettledSoFar(f) == DOMAIN f.read \ f.todo

\* C11: a checkout that fails leaves no transaction row of its own, no line
\* bound to it and no inventory changed by it; a checkout that succeeds leaves
\* its row, every line it read bound to it and every decrement written.
C11_SettlementAllOrNothing ==
    [][ \A s \in DOMAIN requests :
          (requests[s].op = "checkout" /\ s \notin DOMAIN requests') =>
             LET f == requests[s]
             IN  IF response'.status = 201
                 THEN /\ f.tx \in DOMAIN transactions'
                      /\ \A id \in DOMAIN f.read :
                            /\ id \in DOMAIN cartItems'
                            /\ cartItems'[id].transactionId = f.tx
                 ELSE /\ f.tx \notin DOMAIN transactions'
                      /\ getCartItems(cartItems', f.tx, Null) = {}
                      /\ SettledSoFar(f) = {} ]_vars

CartOps == {"addItem", "setQuantity", "removeItem", "clear"}

\* The lines bound to a transaction, with their contents.
BoundLines ==
    Restrict(cartItems, {id \in DOMAIN cartItems : cartItems[id].transactionId # Null})

\* C12: no cart operation changes, deletes or adds a line that carries a
\* transaction id: the bound lines are the same after it as before it.
C12_BoundLinesImmutable ==
    [][ response'.op \in CartOps => BoundLines' = BoundLines ]_vars

\* C13: once a transaction has completed = true no later operation changes
\* any of its fields; completing it again leaves the record as it was.
C13_CompletedImmutable ==
    [][ \A id \in DOMAIN transactions :
          transactions[id].completed =>
             /\ id \in DOMAIN transactions'
             /\ transactions'[id] = transactions[id] ]_vars

\* The figures a transaction persists.
Figures(t) == << t.subtotal, t.tax, t.total >>

\* C14: the subtotal, tax and total of a completed transaction are the same
\* after every later cart, catalog, settings or checkout operation.
C14_CompletedFiguresFrozen ==
    [][ \A id \in DOMAIN transactions :
          transactions[id].completed =>
             /\ id \in DOMAIN transactions'
             /\ Figures(transactions'[id]) = Figures(transactions[id]) ]_vars

\* A completed transaction with a discounted, taxed total is on record, the
\* product it sold has since been deleted and a later operation was a
\* completion.
C14_Witness ==
    /\ response.op = "complete" /\ response.status = 200
    /\ 1 \notin DOMAIN products
    /\ nextProductId > 3
    /\ nextCategoryId > 2
    /\ users[1].taxRate = 100
    /\ \E id \in DOMAIN transactions :
          /\ transactions[id].completed
          /\ transactions[id].total > 0
          /\ transactions[id].total # transactions[id].subtotal + transactions[id].tax

\* What GET /transactions and GET /transactions/:id answer to user a: the
\* rows listed, and per id the row with its items, or none (404).
TransactionView(a) ==
    [ list |-> getAllTransactions(transactions, a),
      get  |-> [ id \in TransactionIds |->
                   IF HasTransaction(transactions, id, a)
                   THEN << getTransaction(transactions, id, a),
                           Restrict(cartItems, getCartItems(cartItems, id, Null)) >>
                   ELSE << >> ] ]

\* C16: a user gets and lists only the transactions the user owns, and no
\* operation of another caller changes what the user's get and list return.
C16_TransactionsPartitioned ==
    [][ \A a \in Users :
          /\ \A id \in getAllTransactions(transactions, a) : transactions[id].userId = a
          /\ \A id \in TransactionIds :
                HasTransaction(transactions, id, a) => transactions[id].userId = a
          /\ (response'.op = "complete" /\ response'.caller # a)
                => TransactionView(a)' = TransactionView(a) ]_vars

\* The cart PUT /cart/:id {quantity} leaves, computed from the cart and the
\* products it finds.
PutCartItems(items, prods, id, quantity) ==
    IF id \notin getCartItems(items, Null, Null) THEN items
    ELSE IF quantity > items[id].quantity /\ ~HasProduct(prods, items[id].productId)
    THEN items
    ELSE IF /\ quantity > items[id].quantity
            /\ getProductById(prods, items[id].productId).inventory
                  < additionalQuantity(quantity, items[id])
    THEN items
    ELSE updateCartItem(items, id, quantity)

\* The quantities a PUT /cart/:id names.
SetQuantities == -1 .. MaxQuantity

\* C17: setQuantity with q <= 0 on a pending line removes the line and answers
\* with success, and a line that has left the pending cart never returns to it
\* (adding the product again creates a new line).
C17_ZeroQuantityRemoves ==
    [][ /\ \A id \in PendingIds, q \in SetQuantities :
              (q <= 0 /\ SetQuantity(id, q)) =>
                 /\ response'.status = 200
                 /\ id \notin DOMAIN cartItems'
        /\ \A id \in 1 .. (nextCartItemId - 1) :
              id \notin PendingIds => id \notin getCartItems(cartItems', Null, Null)
      ]_vars

\* The only line ever created is gone and the last answer is the success of
\* a setQuantity: that request removed it.
C17_Witness ==
    /\ response = [op |-> "setQuantity", status |-> 200]
    /\ nextCartItemId = 2
    /\ cartItems = NoFunction

\* C18: with the inventory unchanged, a second setQuantity(line, q) right after
\* the first leaves the stored cart as the first left it.
C18_SetQuantityIdempotent ==
    [][ \A id \in CartItemIds, q \in SetQuantities :
          SetQuantity(id, q) =>
             /\ cartItems' = PutCartItems(cartItems, products, id, q)
             /\ PutCartItems(cartItems', products', id, q) = cartItems' ]_vars

\* A setQuantity succeeded on the only line ever created and left it with a
\* quantity above 1 that the product's inventory no longer covers.
C18_Witness ==
    /\ response = [op |-> "setQuantity", status |-> 200]
    /\ nextCartItemId = 2
    /\ 1 \in PendingIds
    /\ cartItems[1].quantity > 1
    /\ HasProduct(products, cartItems[1].productId)
    /\ products[cartItems[1].productId].inventory < cartItems[1].quantity

\* C19: addItem fails with out-of-stock (400) whenever the quantity asked for
\* exceeds the product's inventory at that time, and with not-found (404) when
\* the product does not exist; the cart is unchanged in both cases.
C19_AddItemRejections ==
    [][ \A p \in ProductIds \cup {MissingProductId}, q \in 0 .. MaxQuantity,
           price \in {Null} \cup {products[x].price : x \in DOMAIN products} :
          AddItem(p, q, price) =>
             /\ ~HasProduct(products, p) =>
                   (response'.status = 404 /\ cartItems' = cartItems)
             /\ (HasProduct(products, p) /\ q > products[p].inventory) =>
                   (response'.status = 400 /\ cartItems' = cartItems) ]_vars

\* An addItem was refused for lack of stock while the cart held a line.
C19_Witness ==
    /\ response = [op |-> "addItem", status |-> 400]
    /\ PendingIds # {}

\* C20: a setQuantity above the stored quantity fails with out-of-stock (400)
\* whenever the inventory is less than the increase, and the stored quantity
\* stays; a decrease to a positive quantity succeeds.
C20_SetQuantityStockCheck ==
    [][ \A id \in PendingIds, q \in SetQuantities :
          SetQuantity(id, q) =>
             LET old == cartItems[id].quantity
                 pid == cartItems[id].productId
             IN  /\ (q > old /\ HasProduct(products, pid)
                       /\ products[pid].inventory < q - old) =>
                       (response'.status = 400 /\ cartItems' = cartItems)
                 /\ (0 < q /\ q < old) =>
                       /\ response'.status = 200
                       /\ cartItems' = [cartItems EXCEPT ![id].quantity = q] ]_vars

\* A setQuantity was refused for lack of stock: the line keeps its quantity.
C20_Witness ==
    /\ response = [op |-> "setQuantity", status |-> 400]
    /\ PendingIds # {}
    /\ \A id \in PendingIds : cartItems[id].quantity = added[id]

\* What GET /cart answers to a caller: the route reads no req.user and asks
\* getCartItems() for every pending line.
ListCart(caller) == getCartItems(cartItems, Null, Null)

\* C15: cart lines are partitioned by owner: no line is in the list() of two
\* different users (a line one user added is never returned to another, so
\* never there for the other to change, remove, clear or check out).
C15_CartPartitionedByOwner ==
    \A a, b \in Users : a # b => ListCart(a) \cap ListCart(b) = {}

\* C21: removeItem deletes a pending line, and answers not-found (404) and
\* leaves the store unchanged when no pending line has that id, as on the
\* second removeItem of the same line.
C21_RemoveItemNotFound ==
    [][ \A id \in CartItemIds :
          RemoveItem(id) =>
             IF id \in PendingIds
             THEN id \notin DOMAIN cartItems'
             ELSE response'.status = 404 /\ cartItems' = cartItems ]_vars

\* C22: the unit price of a cart line is fixed when the line is created: no
\* later product price update, quantity change or repeated addItem changes the
\* price stored on the line.
C22_LinePriceFixed ==
    [][ \A id \in DOMAIN cartItems \cap DOMAIN cartItems' :
          cartItems'[id].price = cartItems[id].price ]_vars

\* The only line ever created was merged into by an addItem after its product
\* was repriced: it holds more than one unit at a price that is no longer the
\* product's.
C22_Witness ==
    /\ response = [op |-> "addItem", status |-> 201]
    /\ nextCartItemId = 2
    /\ 1 \in PendingIds
    /\ cartItems[1].quantity > 1
    /\ HasProduct(products, cartItems[1].productId)
    /\ cartItems[1].price # products[cartItems[1].productId].price

\* C23: every transaction a checkout creates has status 'completed' and
\* completed = true, and carries a discount amount and a discount kind exactly
\* when the capped discount of the cart is greater than 0 (neither otherwise).
C23_CreatedTransactionCompleted ==
    [][ TransactionCreated =>
          LET t == CreatedTransaction
          IN  /\ t.status = "completed"
              /\ t.completed = TRUE
              /\ IF HookDiscount > 0
                 THEN t.discount # Null /\ t.discountType # NullText
                 ELSE t.discount = Null /\ t.discountType = NullText ]_vars

\* C24: listCategories returns to an authenticated user exactly that user's
\* categories and the global ones (no owner), and to an unauthenticated caller
\* only the global ones: a category another user owns is never returned.
C24_CategoriesPartitioned ==
    \A caller \in Callers :
       ListCategories(caller) =
          { id \in DOMAIN categories :
              \/ categories[id].userId = Null
              \/ caller # Null /\ categories[id].userId = caller }

\* C25: after any sequence of createCategory calls no owner has two categories
\* of the same name (two different owners may each have one of that name).
C25_CategoryNamePerOwnerUnique ==
    \A a, b \in DOMAIN categories :
       (a # b /\ categories[a].userId # Null
              /\ categories[a].userId = categories[b].userId)
          => categories[a].name # categories[b].name

\* The tax rates the settings form accepts, in tenths of a percent: 0 to 30%.
AllowedTaxRates == 0 .. 300

\* C26: for every tax rate r from 0 to 30 (both ends included) stored for the
\* user, the tax the hook computes for the cart is the discounted subtotal
\* x r / 100: the stored rate is the rate used, the 7.5% default is not.
C26_StoredRateUsed ==
    \A u \in Users :
       users[u].taxRate \in AllowedTaxRates =>
          HookTax(u) * 1000 = (HookSubtotal - HookDiscount) * users[u].taxRate

\* C27: when Apply is pressed in the discount dialog with a positive value, the
\* value handed to onApplyDiscount is at most 100 for a percentage and at most
\* the current subtotal for a fixed amount; with a value <= 0 nothing is
\* applied and the previous discount stays.
C27_AppliedDiscountClamped ==
    [][ HandleApplyDiscount =>
          IF modal.discountValue > 0
          THEN /\ discountType' = modal.discountType
               /\ modal.discountType = "percentage" => discount' <= 100
               /\ modal.discountType = "amount" => discount' <= HookSubtotal
          ELSE discount' = discount /\ discountType' = discountType ]_vars

\* C28: with the inventory left as it is, in every state successful addItem
\* and setQuantity requests reach, the quantity of each pending line is at
\* most the inventory on hand of its product.
C28_LineWithinInventory ==
    \A id \in PendingIds :
       HasProduct(products, cartItems[id].productId) =>
          cartItems[id].quantity <= products[cartItems[id].productId].inventory

\* C29: each pending line is settled at most once: a checkout that follows a
\* successful checkout with no addItem in between, while lines the first one
\* settled are still in the cart, decrements no inventory again and creates no
\* second transaction charging them.
C29_LineSettledOnce ==
    [][ ( /\ response = [op |-> "checkout", status |-> 201]
          /\ PendingIds # {}
          /\ CheckoutStep )
          => (products' = products /\ transactions' = transactions) ]_vars

\* POST /cart sent from the session of caller: the route reads no req.user, so
\* the request is handled the same whoever sends it.
AddItemAs(caller, productId, quantity, bodyPrice) ==
    AddItem(productId, quantity, bodyPrice)

\* C30: product inventory is partitioned by owner: a checkout by one user
\* changes the inventory of no product another user owns, and a user cannot
\* add another user's product to a cart.
C30_InventoryPartitionedByOwner ==
    [][ /\ TransactionCreated =>
              \A p \in DOMAIN products :
                 products[p].userId # CreatedTransaction.userId =>
                    /\ p \in DOMAIN products'
                    /\ products'[p].inventory = products[p].inventory
        /\ \A b \in Users, p \in ProductIds, q \in 0 .. MaxSettledQuantity :
              ( /\ HasProduct(products, p)
                /\ products[p].userId # b
                /\ AddItemAs(b, p, q, Null) )
                 => (response'.status >= 400 /\ cartItems' = cartItems) ]_vars

====
